---- MODULE Spec2Model ----
(***************************************************************************)
(* The hybrid expense categorizer of FinLens                               *)
(* (backend/services/categorizer.py): the rule matcher over the pattern    *)
(* table, the TTL cache with bulk eviction, and categorize() with its      *)
(* suspension at the AI client call.                                       *)
(*                                                                         *)
(* Conventions.  Confidences are hundredths (0.95 is 95).  Time is the     *)
(* value datetime.now() reads, in whole ticks.  Python strings are TLA+    *)
(* strings; the cache's dict is a sequence of entries in insertion order   *)
(* (a dict iterates in insertion order and sorted() is stable, which is    *)
(* what decides ties in eviction).                                         *)
(***************************************************************************)
EXTENDS Integers, Sequences, FiniteSets, TLC

\* ------------------------------------------------------------------------
\* Bounds of the model
\* ------------------------------------------------------------------------
NumTasks == 2
MaxCalls == 2
MaxTime == 2
MaxTTL == 1
MaxMaxSize == 2
MaxGets == 3
MaxSets == 3

\* create_expense requests served in one behaviour
MaxRequests == 2

Tasks == 1..NumTasks

\* ------------------------------------------------------------------------
\* Python string primitives
\* ------------------------------------------------------------------------
UpperCase == "ABCDEFGHIJKLMNOPQRSTUVWXYZ"
LowerCase == "abcdefghijklmnopqrstuvwxyz"
Digits == "0123456789"

CharAt(s, i) == SubSeq(s, i, i)

CharsOf(s) == {CharAt(s, i) : i \in 1..Len(s)}

\* str.lower() on one character
LowerChar(c) ==
  IF \E i \in 1..Len(UpperCase) : CharAt(UpperCase, i) = c
  THEN CharAt(LowerCase, CHOOSE i \in 1..Len(UpperCase) : CharAt(UpperCase, i) = c)
  ELSE c

RECURSIVE Lower(_)
Lower(s) == IF s = "" THEN "" ELSE LowerChar(Head(s)) \o Lower(Tail(s))

\* the characters str.strip() removes
IsSpace(c) == c \in {" ", "\t", "\n", "\r"}

RECURSIVE LStrip(_)
LStrip(s) == IF s # "" /\ IsSpace(CharAt(s, 1)) THEN LStrip(Tail(s)) ELSE s

RECURSIVE RStrip(_)
RStrip(s) ==
  IF s # "" /\ IsSpace(CharAt(s, Len(s))) THEN RStrip(SubSeq(s, 1, Len(s) - 1)) ELSE s

Strip(s) == RStrip(LStrip(s))

\* Python's `sub in s`
Contains(sub, s) ==
  \E i \in 1..(Len(s) - Len(sub) + 1) : SubSeq(s, i, i + Len(sub) - 1) = sub

\* the regex class \w
WordChars == CharsOf(UpperCase) \cup CharsOf(LowerCase) \cup CharsOf(Digits) \cup {"_"}

IsWordChar(c) == c \in WordChars

\* the regex assertion \b between positions i-1 and i of s (i in 1..Len(s)+1)
WordBoundary(s, i) ==
  LET before == i > 1 /\ IsWordChar(CharAt(s, i - 1))
      after == i <= Len(s) /\ IsWordChar(CharAt(s, i))
  IN before # after

\* ------------------------------------------------------------------------
\* The pattern table.  Each pattern is \b(k1|k2|...)\b, kept as the set of
\* its alternatives.
\* ------------------------------------------------------------------------
CATEGORY_PATTERNS ==
  <<
    [category |-> "Food & Dining", patterns |-> <<
        {"restaurant", "food", "lunch", "dinner", "breakfast", "brunch", "cafe", "coffee",
         "tea", "pizza", "burger", "chicken", "rice", "meal", "eat", "dining", "snack",
         "takeout", "takeaway", "delivery", "order"},
        {"grocery", "supermarket", "shoprite", "melcom", "maxmart", "market", "provisions",
         "foodstuff"},
        {"waakye", "jollof", "kenkey", "banku", "fufu", "kelewele", "gari", "shito", "tilapia",
         "kontomire", "red red", "fried rice", "indomie", "bread", "egg"},
        {"mcdonald", "kfc", "subway", "starbucks", "dominos", "papaye", "marwako", "nandos",
         "chicken inn"},
        {"drinks", "juice", "soda", "beer", "wine", "alcohol", "bar tab", "snacks", "biscuits",
         "cookies", "ice cream", "fruit"} >>],
    [category |-> "Transportation", patterns |-> <<
        {"uber", "bolt", "yango", "taxi", "cab", "ride", "driver", "trotro", "bus", "train",
         "metro", "okada", "aboboyaa"},
        {"fuel", "gas", "petrol", "diesel", "filling station", "shell", "goil", "total",
         "oando", "oryx"},
        {"parking", "toll", "car wash", "mechanic", "repair", "tyre", "tire", "oil change",
         "service", "maintenance"},
        {"flight", "airline", "ticket", "transport", "commute", "travel fare"} >>],
    [category |-> "Shopping", patterns |-> <<
        {"shop", "shopping", "store", "mall", "boutique", "market", "purchase", "buy", "bought"},
        {"clothing", "clothes", "shirt", "trouser", "dress", "jeans", "shoes", "sneakers",
         "sandals", "bag", "handbag"},
        {"electronics", "phone", "laptop", "computer", "tablet", "charger", "headphones",
         "earbuds", "accessory", "gadget"},
        {"amazon", "melcom", "palace", "junction", "accra mall", "achimota mall",
         "marina mall", "west hills"},
        {"furniture", "home", "kitchen", "appliance", "decor", "bedding", "mattress", "chair",
         "table"} >>],
    [category |-> "Entertainment", patterns |-> <<
        {"movie", "cinema", "film", "netflix", "showmax", "dstv", "gotv", "subscription",
         "streaming"},
        {"game", "gaming", "ps5", "playstation", "xbox", "steam", "bet", "betting", "lotto",
         "lottery"},
        {"concert", "show", "event", "club", "lounge", "bar", "nightclub", "party", "birthday",
         "celebration"},
        {"spotify", "apple music", "youtube", "tiktok", "premium", "membership"},
        {"fun", "outing", "hangout", "leisure", "recreation", "picnic"} >>],
    [category |-> "Bills & Utilities", patterns |-> <<
        {"bill", "utility", "electricity", "electric", "power", "ecg", "prepaid", "postpaid",
         "light"},
        {"water", "gwc", "internet", "wifi", "data", "bundle", "mtn", "vodafone", "airtel",
         "glo", "at"},
        {"phone", "mobile", "airtime", "credit", "rent", "lease", "apartment", "house"},
        {"insurance", "premium", "subscription", "mortgage", "property tax", "waste",
         "sanitation"},
        {"cable", "tv", "dstv", "gotv", "startimes", "decoder"} >>],
    [category |-> "Healthcare", patterns |-> <<
        {"doctor", "hospital", "clinic", "pharmacy", "medicine", "drug", "prescription",
         "health", "medical"},
        {"dental", "dentist", "teeth", "eye", "glasses", "optician", "checkup", "test", "lab",
         "laboratory", "scan"},
        {"nhis", "insurance", "consultation", "treatment", "surgery", "procedure", "therapy",
         "physio"},
        {"vitamin", "supplement", "painkiller", "paracetamol", "ibuprofen", "first aid"} >>],
    [category |-> "Education", patterns |-> <<
        {"school", "tuition", "fees", "course", "class", "lesson", "training", "workshop",
         "seminar", "conference"},
        {"book", "textbook", "stationery", "notebook", "pen", "pencil", "supplies", "materials"},
        {"university", "college", "polytechnic", "diploma", "degree", "certificate", "exam",
         "test", "quiz"},
        {"online course", "udemy", "coursera", "skillshare", "masterclass", "tutorial",
         "learning"} >>],
    [category |-> "Personal Care", patterns |-> <<
        {"salon", "barber", "hair", "haircut", "braids", "weave", "wig", "nails", "manicure",
         "pedicure", "makeup", "cosmetics"},
        {"spa", "massage", "facial", "skincare", "cream", "lotion", "perfume", "cologne",
         "fragrance", "deodorant"},
        {"gym", "fitness", "workout", "exercise", "yoga", "pilates", "sports", "swimming",
         "membership"},
        {"toiletries", "soap", "shampoo", "toothpaste", "brush", "razor", "shaving", "grooming"} >>],
    [category |-> "Travel", patterns |-> <<
        {"hotel", "motel", "airbnb", "lodge", "resort", "accommodation", "booking",
         "reservation", "stay"},
        {"flight", "airline", "airport", "ticket", "boarding", "passport", "visa", "travel",
         "trip", "vacation", "holiday"},
        {"africa world", "passion air", "emirates", "kenya airways", "ethiopian",
         "british airways"},
        {"tourism", "tour", "sightseeing", "excursion", "adventure", "road trip", "getaway"} >>],
    [category |-> "Savings & Investments", patterns |-> <<
        {"savings", "save", "investment", "invest", "stock", "shares", "trading", "crypto",
         "bitcoin", "forex"},
        {"deposit", "transfer", "momo", "mobile money", "wallet", "susu", "contribution",
         "pension"},
        {"bank", "banking", "interest", "dividend", "mutual fund", "fixed deposit",
         "treasury bill", "bond"} >>]
  >>

\* re.compile(pattern, re.IGNORECASE).search(s) for a pattern \b(k1|...)\b
PatternSearch(alternatives, s) ==
  \E kw \in alternatives :
    \E i \in 1..(Len(s) - Len(kw) + 1) :
      /\ WordBoundary(s, i)
      /\ WordBoundary(s, i + Len(kw))
      /\ Lower(SubSeq(s, i, i + Len(kw) - 1)) = kw


\* ------------------------------------------------------------------------
\* Values
\* ------------------------------------------------------------------------
\* CategorizationMethod
REGEX == "regex"
AI == "ai"
MANUAL == "manual"

RegexConfidence == 95
EmptyConfidence == 10
QuotaConfidence == 30
ErrorConfidence == 20
UnknownCategoryConfidence == 30
DefaultConfidence == 50
CacheThreshold == 25

NoSuggestion == [category |-> "", confidence |-> 0, method |-> "", reasoning |-> ""]

Suggestion(category, confidence, method, reasoning) ==
  [category |-> category, confidence |-> confidence, method |-> method,
   reasoning |-> reasoning]

\* list(self.CATEGORY_PATTERNS.keys()) + ["Other"]
valid_categories == {CATEGORY_PATTERNS[i].category : i \in 1..Len(CATEGORY_PATTERNS)} \cup {"Other"}

\* The constraint pydantic enforces when a CategorySuggestion is constructed:
\* confidence: float = Field(..., ge=0.0, le=1.0).  Construction raises
\* ValidationError when it does not hold.
\* CategorySuggestion without the ge/le constraint
FieldConstraint_off(confidence) == TRUE

FieldConstraint(confidence) == confidence >= 0 /\ confidence <= 100

\* ------------------------------------------------------------------------
\* The rule matcher
\* ------------------------------------------------------------------------
NoMatch == [matched |-> FALSE, category |-> "", confidence |-> 0]

\* whether any compiled pattern of table row i finds a match
CategoryMatches(i, s) ==
  \E p \in 1..Len(CATEGORY_PATTERNS[i].patterns) :
    PatternSearch(CATEGORY_PATTERNS[i].patterns[p], s)

\* _regex_categorize with pattern.fullmatch in place of pattern.search
_regex_categorize_fullmatch(description) ==
  LET description_lower == Lower(description)
      hits == {i \in 1..Len(CATEGORY_PATTERNS) :
                 \E p \in 1..Len(CATEGORY_PATTERNS[i].patterns) :
                   description_lower \in CATEGORY_PATTERNS[i].patterns[p]}
  IN IF hits = {} THEN NoMatch
     ELSE LET first == CHOOSE i \in hits : \A j \in hits : i <= j
          IN [matched |-> TRUE, category |-> CATEGORY_PATTERNS[first].category,
              confidence |-> RegexConfidence]

\* _regex_categorize finding no match for any description
_regex_categorize_never(description) == NoMatch

\* _regex_categorize returning the last matching category of the table
_regex_categorize_last(description) ==
  LET description_lower == Lower(description)
      hits == {i \in 1..Len(CATEGORY_PATTERNS) : CategoryMatches(i, description_lower)}
  IN IF hits = {} THEN NoMatch
     ELSE LET last == CHOOSE i \in hits : \A j \in hits : i >= j
          IN [matched |-> TRUE, category |-> CATEGORY_PATTERNS[last].category,
              confidence |-> RegexConfidence]

_regex_categorize(description) ==
  LET description_lower == Lower(description)
      hits == {i \in 1..Len(CATEGORY_PATTERNS) : CategoryMatches(i, description_lower)}
  IN IF hits = {} THEN NoMatch
     ELSE LET first == CHOOSE i \in hits : \A j \in hits : i <= j
          IN [matched |-> TRUE, category |-> CATEGORY_PATTERNS[first].category,
              confidence |-> RegexConfidence]

\* ------------------------------------------------------------------------
\* The inputs of the model
\* ------------------------------------------------------------------------
Descriptions ==
  {"", " \t ", "  UBER ride ", "Phone bill", "asdkjalksd123", " AsdkjaLKSD123  ", "zzz"}

\* The value stored under "confidence" in the client's JSON, or its absence.
Num(n) == [type |-> "number", num |-> n, str |-> ""]
Str(s) == [type |-> "string", num |-> 0, str |-> s]
Missing == [type |-> "missing", num |-> 0, str |-> ""]

Response(category, confidence, reasoning) ==
  [kind |-> "response", category |-> category, confidence |-> confidence,
   reasoning |-> reasoning, cause |-> "", text |-> ""]

Error(cause, text) ==
  [kind |-> "error", category |-> Missing, confidence |-> Missing,
   reasoning |-> Missing, cause |-> cause, text |-> text]

NoOutcome ==
  [kind |-> "none", category |-> Missing, confidence |-> Missing,
   reasoning |-> Missing, cause |-> "", text |-> ""]

\* What generate_structured_content can do when awaited: return a parsed
\* JSON object, or raise.  `cause` is what went wrong, `text` is str(e).
AIResponses ==
  {Response(Str("Shopping"), Num(60), Str("guess")),
   Response(Str("Shopping"), Num(25), Str("guess")),
   Response(Str("Food & Dining"), Num(100), Str("sure")),
   Response(Str("Other"), Num(0), Str("no idea")),
   Response(Str("Travel"), Num(150), Str("very sure")),
   Response(Str("Travel"), Num(-10), Str("guess")),
   Response(Str("Groceries"), Num(90), Str("guess")),
   Response(Str("Groceries"), Num(150), Missing),
   Response(Str("Shopping"), Str("moderate"), Str("guess")),
   Response(Str("Shopping"), Str("high"), Str("guess")),
   Response(Str("Groceries"), Str("high"), Str("guess")),
   Response(Missing, Missing, Missing)}

AIErrors ==
  {Error("quota", "429 Resource has been exhausted"),
   Error("quota", "Quota exceeded for requests per minute"),
   Error("rate_limit", "Rate limit reached"),
   Error("timeout", "Deadline Exceeded"),
   Error("malformed_json", "Expecting value: line 1 column 1 (char 0)"),
   Error("not_found", "404 model is not supported for generateContent")}

AIOutcomes == AIResponses \cup AIErrors

\* Descriptions with pairwise distinct normalized keys, for filling a cache
\* through set(); the sizes of the caches filled.
FillDescriptions ==
  <<"d01", "d02", "d03", "d04", "d05", "d06", "d07", "d08", "d09", "d10", "d11",
    "d12", "d13", "d14", "d15", "d16", "d17", "d18", "d19", "d20", "d21", "d22">>

FillSizes == {1, 2, 3, 10, 19, 20, 21}

FillValue == [category |-> "Shopping", confidence |-> 60, method |-> "ai", reasoning |-> "guess"]

\* The descriptions of the keyword tests (tests/test_categorizer.py).
TestDescriptions ==
  {"Starbucks coffee", "McDonald's lunch", "Pizza delivery", "Supermarket groceries",
   "Restaurant dinner", "KFC meal",
   "Uber ride", "Gas station fill-up", "Bus fare", "Taxi to airport", "Lyft to downtown",
   "Amazon purchase", "Mall shopping", "Nike store", "Electronics store",
   "Netflix subscription", "Movie tickets", "Spotify premium", "Concert tickets",
   "Cinema outing",
   "Electric bill payment", "Water utility", "Internet bill", "Phone bill", "Rent payment",
   "Doctor visit", "Pharmacy prescription", "Hospital bill", "Dentist appointment",
   "Medicine purchase"}

\* Descriptions made of two keywords of different categories, in both orders.
OrderWords == {"pizza", "amazon", "rent", "doctor", "hotel", "savings"}

Pairs == {p \in OrderWords \X OrderWords : p[1] # p[2]}

PairDescription == [p \in Pairs |-> p[1] \o " " \o p[2]]

RuleDescriptions == TestDescriptions \cup {PairDescription[p] : p \in Pairs}

AllDescriptions == Descriptions \cup RuleDescriptions

\* The pure functions of the code are worked out once for the inputs of the
\* model and looked up in the actions.
Stripped == [d \in AllDescriptions |-> Strip(d)]

RegexResults == [s \in {Stripped[d] : d \in AllDescriptions} |-> _regex_categorize(s)]


\* ------------------------------------------------------------------------
\* State
\* ------------------------------------------------------------------------
VARIABLES
  now,          \* what datetime.now() returns
  ttl_seconds,  \* CategorizationCache.ttl_seconds
  max_size,     \* CategorizationCache.max_size
  _cache,       \* CategorizationCache._cache, entries in dict order
  _hits,        \* CategorizationCache._hits
  _misses,      \* CategorizationCache._misses
  task,         \* the coroutines running categorize(), by task
  lastDone,     \* the categorize() call that ended in the last step, if one did
  calls,        \* categorize() calls started
  ai_calls,     \* generate_structured_content invocations
  client_suspends,  \* whether the AI client yields to the event loop while awaited
  set_calls,    \* cache.set calls made directly on the cache (not through categorize)
  get_calls,    \* cache.get calls made since construction or the last clear()
  batch,        \* the batch_categorize() call: its argument, where it is, its list
  api_key,      \* whether GEMINI_API_KEY is set in the process's environment
  _categorizer, \* the module global _categorizer: None or the instance
  created,      \* ExpenseCategorizer objects constructed by get_categorizer
  handles,      \* the instances get_categorizer has returned so far
  req,          \* the create_expense requests in flight, by task
  served,       \* the create_expense requests that ended, in order
  db            \* the database tables the requests write

vars ==
  <<now, ttl_seconds, max_size, _cache, _hits, _misses, task, lastDone, calls, ai_calls,
    client_suspends, set_calls, get_calls, batch, api_key, _categorizer, created, handles,
    req, served, db>>

configVars == <<ttl_seconds, max_size, client_suspends>>

\* what lies outside the categorizer's single calls and its cache
\* the web application around the categorizer
webVars == <<api_key, _categorizer, created, handles, req, served, db>>

appVars == <<batch, webVars>>

\* the cache's fields, and the count of its get() calls
cacheVars == <<_cache, _hits, _misses, get_calls>>

\* ------------------------------------------------------------------------
\* CategorizationCache
\* ------------------------------------------------------------------------
\* hashlib.md5(...).hexdigest(): the digest stands for its input (distinct
\* inputs of the model have distinct digests).
Md5(s) == "md5(" \o s \o ")"

\* _make_key without .lower()
_make_key_no_lower(description) ==
  LET normalized == Strip(description)
  IN Md5(normalized)

_make_key(description) ==
  LET normalized == Strip(Lower(description))
  IN Md5(normalized)

Keys ==
  [d \in AllDescriptions \cup {Stripped[d] : d \in AllDescriptions}
          \cup {FillDescriptions[i] : i \in 1..Len(FillDescriptions)} |-> _make_key(d)]

\* CacheEntry; set_at is not a field of the code's entry: it records when
\* set() built the entry.
CacheEntry(key, value, expires_at, set_at) ==
  [key |-> key, value |-> value, expires_at |-> expires_at, set_at |-> set_at]

NoEntry == [key |-> "", value |-> NoSuggestion, expires_at |-> 0, set_at |-> 0]

\* position of key in the dict, 0 when absent
IndexOf(cache, key) ==
  IF \E i \in 1..Len(cache) : cache[i].key = key
  THEN CHOOSE i \in 1..Len(cache) : cache[i].key = key
  ELSE 0

\* is_expired with >= in place of >
is_expired_inclusive(entry, t) == t >= entry.expires_at

is_expired(entry, t) == t > entry.expires_at

RemoveAt(cache, drop) ==
  LET F[i \in 0..Len(cache)] ==
        IF i = 0 THEN <<>>
        ELSE IF i \in drop THEN F[i - 1] ELSE Append(F[i - 1], cache[i])
  IN F[Len(cache)]

\* get() leaving an expired entry in the store
CacheGet_keep_expired(cache, hits, misses, description, t) ==
  LET key == Keys[description]
      i == IndexOf(cache, key)
  IN IF i = 0 \/ is_expired(cache[i], t)
     THEN [cache |-> cache, hits |-> hits, misses |-> misses + 1,
           hit |-> FALSE, value |-> NoSuggestion, found |-> i # 0,
           entry |-> IF i = 0 THEN NoEntry ELSE cache[i]]
     ELSE [cache |-> cache, hits |-> hits + 1, misses |-> misses,
           hit |-> TRUE, value |-> cache[i].value, found |-> TRUE, entry |-> cache[i]]

\* get() with a sliding expiration: a hit moves the entry's expires_at on
CacheGet_sliding(cache, hits, misses, description, t) ==
  LET key == Keys[description]
      i == IndexOf(cache, key)
  IN IF i = 0
     THEN [cache |-> cache, hits |-> hits, misses |-> misses + 1,
           hit |-> FALSE, value |-> NoSuggestion, found |-> FALSE, entry |-> NoEntry]
     ELSE IF is_expired(cache[i], t)
     THEN [cache |-> RemoveAt(cache, {i}), hits |-> hits, misses |-> misses + 1,
           hit |-> FALSE, value |-> NoSuggestion, found |-> TRUE, entry |-> cache[i]]
     ELSE [cache |-> [cache EXCEPT ![i].expires_at = @ + 1], hits |-> hits + 1,
           misses |-> misses, hit |-> TRUE, value |-> cache[i].value, found |-> TRUE,
           entry |-> cache[i]]

\* self._cache.get(key), then the three outcomes of get()
CacheGet(cache, hits, misses, description, t) ==
  LET key == Keys[description]
      i == IndexOf(cache, key)
  IN IF i = 0
     THEN [cache |-> cache, hits |-> hits, misses |-> misses + 1,
           hit |-> FALSE, value |-> NoSuggestion, found |-> FALSE, entry |-> NoEntry]
     ELSE IF is_expired(cache[i], t)
     THEN [cache |-> RemoveAt(cache, {i}), hits |-> hits, misses |-> misses + 1,
           hit |-> FALSE, value |-> NoSuggestion, found |-> TRUE, entry |-> cache[i]]
     ELSE [cache |-> cache, hits |-> hits + 1, misses |-> misses,
           hit |-> TRUE, value |-> cache[i].value, found |-> TRUE, entry |-> cache[i]]

Max(a, b) == IF a >= b THEN a ELSE b

entries_to_remove(size) == Max(1, size \div 10)

\* _evict_oldest removing the entries stored first, whatever their expires_at
_evict_oldest_fifo(cache, size) ==
  RemoveAt(cache, {i \in 1..Len(cache) : i <= entries_to_remove(size)})

\* sorted(keys, key=expires_at)[:entries_to_remove]: sorted() is stable, so
\* equal expires_at keep dict order.
_evict_oldest(cache, size) ==
  LET Before(j, i) ==
        \/ cache[j].expires_at < cache[i].expires_at
        \/ cache[j].expires_at = cache[i].expires_at /\ j < i
      Rank(i) == Cardinality({j \in 1..Len(cache) : Before(j, i)}) + 1
      drop == {i \in 1..Len(cache) : Rank(i) <= entries_to_remove(size)}
  IN RemoveAt(cache, drop)

\* the capacity test with > in place of >=
AtCapacity_strict(cache, size) == Len(cache) > size

AtCapacity(cache, size) == Len(cache) >= size

ExpiresAt(t, ttl) == t + ttl

\* set() appending the entry even when the key is already stored
CacheSet_append(cache, size, ttl, description, result, t) ==
  LET kept == IF AtCapacity(cache, size) THEN _evict_oldest(cache, size) ELSE cache
      e == CacheEntry(Keys[description], result, ExpiresAt(t, ttl), t)
  IN Append(kept, e)

\* set() leaving the entry of a key that is already stored as it is
CacheSet_keep_first(cache, size, ttl, description, result, t) ==
  LET kept == IF AtCapacity(cache, size) THEN _evict_oldest(cache, size) ELSE cache
      key == Keys[description]
      e == CacheEntry(key, result, ExpiresAt(t, ttl), t)
      i == IndexOf(kept, key)
  IN IF i = 0 THEN Append(kept, e) ELSE kept

\* set() evicting only when the key is not stored yet
CacheSet_evict_if_new(cache, size, ttl, description, result, t) ==
  LET key == Keys[description]
      kept == IF AtCapacity(cache, size) /\ IndexOf(cache, key) = 0
              THEN _evict_oldest(cache, size) ELSE cache
      e == CacheEntry(key, result, ExpiresAt(t, ttl), t)
      i == IndexOf(kept, key)
  IN IF i = 0 THEN Append(kept, e) ELSE [kept EXCEPT ![i] = e]

CacheSet(cache, size, ttl, description, result, t) ==
  LET kept == IF AtCapacity(cache, size) THEN _evict_oldest(cache, size) ELSE cache
      key == Keys[description]
      e == CacheEntry(key, result, ExpiresAt(t, ttl), t)
      i == IndexOf(kept, key)
  IN IF i = 0 THEN Append(kept, e) ELSE [kept EXCEPT ![i] = e]


\* ------------------------------------------------------------------------
\* ExpenseCategorizer._ai_categorize, after the await
\* ------------------------------------------------------------------------
Triple(category, confidence, reasoning) ==
  [category |-> category, confidence |-> confidence, reasoning |-> reasoning]

QuotaWords == {"quota", "rate", "429"}

\* "quota" in error_str or "rate" in error_str or "429" in error_str
\* the quota test on str(e) instead of str(e).lower()
IsQuotaError_case_sensitive(text) == \E w \in QuotaWords : Contains(w, text)

IsQuotaError(text) ==
  LET error_str == Lower(text)
  IN \E w \in QuotaWords : Contains(w, error_str)

\* the except branch, for an exception e with str(e) = text
ExceptBranch(text) ==
  IF IsQuotaError(text)
  THEN Triple("Other", QuotaConfidence, "AI quota exceeded - using fallback category")
  ELSE Triple("Other", ErrorConfidence, "AI error: " \o text)

\* float(v): a number converts; the strings of the model are words, for which
\* float() raises ValueError with this text.
FloatError(v) == "could not convert string to float: '" \o v.str \o "'"

ValidateCategory(category, confidence, reasoning) ==
  IF category \notin valid_categories
  THEN Triple("Other", UnknownCategoryConfidence,
              "Unknown category suggested, defaulted to Other")
  ELSE Triple(category, confidence, reasoning)

_ai_categorize(outcome) ==
  IF outcome.kind = "error" THEN ExceptBranch(outcome.text)
  ELSE
    LET category == IF outcome.category.type = "missing" THEN "Other"
                    ELSE outcome.category.str
        raw == outcome.confidence
        reasoning == IF outcome.reasoning.type = "missing" THEN "AI categorization"
                     ELSE outcome.reasoning.str
    IN IF raw.type = "string" THEN ExceptBranch(FloatError(raw))
       ELSE ValidateCategory(category,
                             IF raw.type = "missing" THEN DefaultConfidence ELSE raw.num,
                             reasoning)

AIResults == [outcome \in AIOutcomes |-> _ai_categorize(outcome)]

EmptyDescriptions == {d \in AllDescriptions : d = "" \/ Strip(d) = ""}

\* ------------------------------------------------------------------------
\* ExpenseCategorizer.categorize
\* ------------------------------------------------------------------------
NoPred == [description |-> "", status |-> "none", result |-> NoSuggestion, ai |-> 0]

\* One categorize() call: its argument, where it is, what it did.
\*   pc      idle | awaiting (suspended in the AI client call) | done
\*   status  none | returned | raised
\*   tiers   the tiers the call went through, in order
\*   gets    cache.get calls made;  ai  AI client invocations made
\*   found, entry, getTime   the local `entry` of get() and when it was read
\*   stored  whether the call reached cache.set
\*   pred    the call that had ended in the step before this one started
\*   peer    the last call for the same key that ended while this one was
\*           suspended in the AI client
\* A direct get() or set() on the cache is kept in the same record (pc get |
\* set); for a set(), found says whether the key was stored when it was
\* called and evicted counts the entries under other keys it removed.
BlankCall ==
  [pc |-> "idle", description |-> "", status |-> "none", result |-> NoSuggestion,
   tiers |-> <<>>, gets |-> 0, ai |-> 0, hit |-> FALSE, found |-> FALSE,
   entry |-> NoEntry, getTime |-> 0, outcome |-> NoOutcome, stored |-> FALSE,
   pred |-> NoPred, peer |-> NoPred, evicted |-> 0]

NoCall == [BlankCall EXCEPT !.pc = "none"]

Summary(call) ==
  [description |-> call.description, status |-> call.status, result |-> call.result,
   ai |-> call.ai]

Returned(call, result) == [call EXCEPT !.pc = "done", !.status = "returned", !.result = result]

Raised(call) == [call EXCEPT !.pc = "done", !.status = "raised"]

\* the empty check letting every description through
IsEmptyDescription_never(description) == FALSE

\* not description or not description.strip()
\* the empty check without `or not description.strip()`
IsEmptyDescription_no_strip(description) == description = ""

IsEmptyDescription(description) == description \in EmptyDescriptions

\* the caching threshold moved above the quota fallback's confidence
ShouldCache_above_fallback(confidence) == confidence > QuotaConfidence

ShouldCache(confidence) == confidence > CacheThreshold

\* the suggestion built from a cache hit, labelled as a rule result
CachedSuggestion_relabelled(cached_result) ==
  Suggestion(cached_result.category, cached_result.confidence, REGEX,
             cached_result.reasoning \o " (cached)")

\* the CategorySuggestion categorize builds from cached_result on a hit
CachedSuggestion(cached_result) ==
  Suggestion(cached_result.category, cached_result.confidence, cached_result.method,
             cached_result.reasoning \o " (cached)")

\* One batch_categorize() call: its argument, the list `results` it builds
\* (with each suggestion, whether the call that gave it was a cache hit and
\* whether it invoked the AI client), and where it is:
\*   pc  idle | running | returned | raised
NoBatch == [pc |-> "idle", descriptions |-> <<>>, results |-> <<>>]

\* The shipped GeminiClient.generate_content calls the SDK's blocking
\* model.generate_content inside its coroutine, so awaiting it never yields to
\* the event loop; a client that awaits real I/O does.  client_suspends says
\* which client the categorizer was built with.  While a call is inside a
\* client that does not yield, nothing else runs on the loop.
LoopFree == client_suspends \/ \A t \in Tasks : task[t].pc # "awaiting"

\* categorize(), from its first line to its return or to the await of the AI
\* client (the call of generate_structured_content is made in this step)
\* (a new call takes the first idle task: which task runs it has no meaning)
CategorizeCall(t, d) ==
  /\ task[t].pc = "idle"
  /\ \A u \in Tasks : u < t => task[u].pc # "idle"
  /\ calls < MaxCalls
  /\ LoopFree
  /\ calls' = calls + 1
  /\ LET call == [BlankCall EXCEPT !.description = d, !.pred = Summary(lastDone)]
     IN IF IsEmptyDescription(d)
        THEN /\ lastDone' =
                  Returned([call EXCEPT !.tiers = <<"empty">>],
                           Suggestion("Other", EmptyConfidence, REGEX, "Empty description"))
             /\ UNCHANGED <<task, cacheVars, ai_calls>>
        ELSE
          LET description == Stripped[d]
              regex_result == RegexResults[description]
          IN IF regex_result.matched
             THEN /\ lastDone' =
                       Returned([call EXCEPT !.tiers = <<"empty", "regex">>],
                                Suggestion(regex_result.category, regex_result.confidence,
                                           REGEX,
                                           "Matched pattern for " \o regex_result.category))
                  /\ UNCHANGED <<task, cacheVars, ai_calls>>
             ELSE
               LET g == CacheGet(_cache, _hits, _misses, description, now)
                   looked == [call EXCEPT !.gets = 1, !.hit = g.hit, !.found = g.found,
                                          !.entry = g.entry, !.getTime = now]
               IN /\ _cache' = g.cache
                  /\ _hits' = g.hits
                  /\ _misses' = g.misses
                  /\ get_calls' = get_calls + 1
                  /\ IF g.hit
                     THEN /\ lastDone' =
                               Returned([looked EXCEPT !.tiers = <<"empty", "regex", "cache">>],
                                        CachedSuggestion(g.value))
                          /\ UNCHANGED <<task, ai_calls>>
                     ELSE /\ task' = [task EXCEPT ![t] =
                               [looked EXCEPT !.pc = "awaiting", !.ai = 1,
                                              !.tiers = <<"empty", "regex", "cache", "ai">>]]
                          /\ ai_calls' = ai_calls + 1
                          /\ lastDone' = NoCall
  /\ UNCHANGED <<now, configVars, set_calls>>

\* a categorize() call made on its own
Categorize(t, d) ==
  /\ CategorizeCall(t, d)
  /\ UNCHANGED appVars

\* categorize() from the end of the await to its return, for the call `call`
\* of task t and the triple r that _ai_categorize returns:
\* CategorySuggestion(...), cache.set.
Complete(t, call, r) ==
  LET description == Stripped[call.description]
      result == Suggestion(r.category, r.confidence, AI, r.reasoning)
      ended == IF ~FieldConstraint(r.confidence) THEN Raised(call)
               ELSE IF ShouldCache(r.confidence)
               THEN Returned([call EXCEPT !.stored = TRUE], result)
               ELSE Returned(call, result)
  IN /\ lastDone' = ended
     /\ IF ended.stored
        THEN /\ _cache' = CacheSet(_cache, max_size, ttl_seconds, description, result, now)
             /\ UNCHANGED <<_hits, _misses, get_calls>>
        ELSE UNCHANGED cacheVars
     /\ task' = [u \in Tasks |->
                   IF u = t THEN BlankCall
                   ELSE IF /\ task[u].pc = "awaiting"
                           /\ Keys[task[u].description] = Keys[call.description]
                   THEN [task[u] EXCEPT !.peer = Summary(ended)]
                   ELSE task[u]]

\* The AI client call ends with `outcome`; categorize() runs from there to its
\* return: the rest of _ai_categorize, CategorySuggestion(...), cache.set.
ResumeFromAI(t, outcome) ==
  /\ task[t].pc = "awaiting"
  /\ Complete(t, [task[t] EXCEPT !.outcome = outcome], AIResults[outcome])
  /\ UNCHANGED <<now, configVars, calls, ai_calls, set_calls, appVars>>

\* asyncio.CancelledError thrown into the await
Cancelled == [NoOutcome EXCEPT !.kind = "cancelled", !.cause = "CancelledError"]

\* `except Exception` catching every exception, CancelledError included
CaughtByExcept_all(cause) == TRUE

\* whether `except Exception as e` catches the exception: CancelledError
\* derives from BaseException, not from Exception
CaughtByExcept(cause) == cause # "CancelledError"

\* The task of a call suspended in the AI client is cancelled: CancelledError
\* is raised at the await and goes through the except clauses of the client
\* and of _ai_categorize.  Something else must run on the loop to cancel.
Cancel(t) ==
  /\ task[t].pc = "awaiting"
  /\ client_suspends
  /\ LET call == [task[t] EXCEPT !.outcome = Cancelled]
     IN IF CaughtByExcept(Cancelled.cause)
        THEN Complete(t, call, ExceptBranch(Cancelled.text))
        ELSE /\ lastDone' = [call EXCEPT !.pc = "done", !.status = "cancelled"]
             /\ task' = [u \in Tasks |->
                           IF u = t THEN BlankCall
                           ELSE IF /\ task[u].pc = "awaiting"
                                   /\ Keys[task[u].description] = Keys[call.description]
                           THEN [task[u] EXCEPT !.peer = Summary(lastDone')]
                           ELSE task[u]]
             /\ UNCHANGED cacheVars
  /\ UNCHANGED <<now, configVars, calls, ai_calls, set_calls, appVars>>

\* CategorizationCache.clear
Clear ==
  /\ LoopFree
  /\ _cache' = <<>>
  /\ _hits' = 0
  /\ _misses' = 0
  /\ get_calls' = 0
  /\ lastDone' = NoCall
  /\ UNCHANGED <<now, configVars, task, calls, ai_calls, set_calls, appVars>>

\* the clock advances
Tick ==
  /\ now < MaxTime
  /\ now' = now + 1
  /\ lastDone' = NoCall
  /\ UNCHANGED <<configVars, cacheVars, task, calls, ai_calls, set_calls, appVars>>

\* None, for the global _categorizer; instances are numbered from 1 in the
\* order in which they are constructed
None == 0

\* a create_expense request: the expense it was posted with, the categorizer
\* it took from get_categorizer, and where it is:
\*   pc  idle | categorizing | budget | lookup | alert | tracking
\* with, inside check_and_create_budget_alerts, the spending it was called
\* with, the threshold the loop is at and the alerts appended to new_alerts
NoRequest ==
  [pc |-> "idle", description |-> "", category |-> "", amount |-> 0, categorizer |-> None,
   spent |-> 0, threshold |-> 0, new_alerts |-> <<>>]

\* the tables create_expense and check_and_create_budget_alerts write, empty
EmptyDb ==
  [ai_audit_log |-> <<>>, expenses |-> <<>>, alerts |-> <<>>, budget_alert_tracking |-> {}]

\* the web application before its first request
WebIdle ==
  /\ _categorizer = None
  /\ created = 0
  /\ handles = {}
  /\ req = [t \in Tasks |-> NoRequest]
  /\ served = <<>>
  /\ db = EmptyDb

Init ==
  /\ now = 0
  /\ ttl_seconds \in 1..MaxTTL
  /\ max_size \in 0..MaxMaxSize
  /\ client_suspends \in BOOLEAN
  /\ _cache = <<>>
  /\ _hits = 0
  /\ _misses = 0
  /\ task = [t \in Tasks |-> BlankCall]
  /\ lastDone = NoCall
  /\ calls = 0
  /\ ai_calls = 0
  /\ set_calls = 0
  /\ get_calls = 0
  /\ batch = NoBatch
  /\ api_key = TRUE
  /\ WebIdle

Next ==
  \/ \E t \in Tasks, d \in Descriptions : Categorize(t, d)
  \/ \E t \in Tasks, outcome \in AIOutcomes : ResumeFromAI(t, outcome)
  \/ \E t \in Tasks : Cancel(t)
  \/ Clear
  \/ Tick

Spec == Init /\ [][Next]_vars

\* ------------------------------------------------------------------------
\* The cache alone, filled through set() with distinct keys
\* ------------------------------------------------------------------------
\* cache.set(description, FillValue) for the next description not yet used
FillSet ==
  /\ set_calls < max_size + 1
  /\ set_calls < Len(FillDescriptions)
  /\ _cache' = CacheSet(_cache, max_size, ttl_seconds, FillDescriptions[set_calls + 1],
                        FillValue, now)
  /\ set_calls' = set_calls + 1
  /\ UNCHANGED <<now, configVars, _hits, _misses, get_calls, task, lastDone, calls, ai_calls,
                 appVars>>

FillInit ==
  /\ now = 0
  /\ ttl_seconds \in 1..MaxTTL
  /\ max_size \in FillSizes
  /\ client_suspends = TRUE
  /\ _cache = <<>>
  /\ _hits = 0
  /\ _misses = 0
  /\ task = [t \in Tasks |-> BlankCall]
  /\ lastDone = NoCall
  /\ calls = 0
  /\ ai_calls = 0
  /\ set_calls = 0
  /\ get_calls = 0
  /\ batch = NoBatch
  /\ api_key = TRUE
  /\ WebIdle

FillNext ==
  \/ FillSet
  \/ Tick

FillSpec == FillInit /\ [][FillNext]_vars

\* ------------------------------------------------------------------------
\* The cache alone, filled through set() with a key set more than once
\* ------------------------------------------------------------------------
\* cache.set(description, FillValue) again for the first description
SetAgain ==
  /\ set_calls >= 1
  /\ _cache' = CacheSet(_cache, max_size, ttl_seconds, FillDescriptions[1], FillValue, now)
  /\ UNCHANGED <<now, configVars, _hits, _misses, get_calls, task, lastDone, calls,
                 ai_calls, set_calls, appVars>>

EvictNext ==
  \/ FillSet
  \/ SetAgain
  \/ Tick

\* the sizes of FillInit, and a cache that may hold nothing
EvictInit ==
  /\ now = 0
  /\ ttl_seconds \in 1..MaxTTL
  /\ max_size \in FillSizes \cup {0}
  /\ client_suspends = TRUE
  /\ _cache = <<>>
  /\ _hits = 0
  /\ _misses = 0
  /\ task = [t \in Tasks |-> BlankCall]
  /\ lastDone = NoCall
  /\ calls = 0
  /\ ai_calls = 0
  /\ set_calls = 0
  /\ get_calls = 0
  /\ batch = NoBatch
  /\ api_key = TRUE
  /\ WebIdle

EvictSpec == EvictInit /\ [][EvictNext]_vars

\* ------------------------------------------------------------------------
\* The cache alone, used through get(), set() and clear()
\* ------------------------------------------------------------------------
\* three descriptions, two of them with the same normalized key
CacheDescriptions == {"asdkjalksd123", " AsdkjaLKSD123  ", "zzz"}

CacheValues ==
  {FillValue,
   Suggestion("Other", QuotaConfidence, AI, "AI quota exceeded - using fallback category")}

\* the entries of `cache` stored under another key than `key` that are not
\* in the store `after`
EvictedOthers(cache, after, key) ==
  Cardinality({i \in 1..Len(cache) : cache[i].key # key /\ IndexOf(after, cache[i].key) = 0})

\* cache.get(d); the call and what it returned are kept in lastDone
Get(d) ==
  /\ get_calls < MaxGets
  /\ LET g == CacheGet(_cache, _hits, _misses, d, now)
     IN /\ _cache' = g.cache
        /\ _hits' = g.hits
        /\ _misses' = g.misses
        /\ lastDone' = [NoCall EXCEPT !.pc = "get", !.description = d, !.gets = 1,
                                      !.hit = g.hit, !.found = g.found, !.entry = g.entry,
                                      !.getTime = now, !.result = g.value]
  /\ get_calls' = get_calls + 1
  /\ UNCHANGED <<now, configVars, task, calls, ai_calls, set_calls, appVars>>

\* cache.set(d, v); the call and its arguments are kept in lastDone
Set(d, v) ==
  /\ set_calls < MaxSets
  /\ _cache' = CacheSet(_cache, max_size, ttl_seconds, d, v, now)
  /\ set_calls' = set_calls + 1
  /\ lastDone' = [NoCall EXCEPT !.pc = "set", !.description = d, !.result = v,
                                !.found = IndexOf(_cache, Keys[d]) # 0,
                                !.evicted = EvictedOthers(_cache, _cache', Keys[d])]
  /\ UNCHANGED <<now, configVars, _hits, _misses, get_calls, task, calls, ai_calls, appVars>>

CacheInit ==
  /\ Init
  /\ client_suspends = TRUE

CacheNext ==
  \/ \E d \in CacheDescriptions : Get(d)
  \/ \E d \in CacheDescriptions, v \in CacheValues : Set(d, v)
  \/ Clear
  \/ Tick

CacheSpec == CacheInit /\ [][CacheNext]_vars

\* ------------------------------------------------------------------------
\* batch_categorize
\* ------------------------------------------------------------------------
BatchDescriptions == {"asdkjalksd123", " AsdkjaLKSD123  ", "zzz", "  UBER ride ", ""}

\* the lists batch_categorize is called with
Batches == UNION {[1..n -> BatchDescriptions] : n \in 0..MaxCalls}

\* what results.append(suggestion) adds for the categorize() call that ended
Element(call) == [result |-> call.result, hit |-> call.hit, ai |-> call.ai]

\* the batch after `await self.categorize(description)` ended: the suggestion
\* is appended, and the list is returned after the last one; an exception of
\* categorize() leaves batch_categorize
Absorb(b, ended) ==
  IF ended.status = "returned"
  THEN LET results == Append(b.results, Element(ended))
       IN [b EXCEPT !.results = results,
                    !.pc = IF Len(results) = Len(b.descriptions) THEN "returned"
                           ELSE "running"]
  ELSE [b EXCEPT !.pc = "raised"]

\* batch_categorize(descriptions) is called; an empty list is returned at once
BatchStart(descriptions) ==
  /\ batch.pc = "idle"
  /\ batch' = [pc |-> IF descriptions = <<>> THEN "returned" ELSE "running",
               descriptions |-> descriptions, results |-> <<>>]
  /\ UNCHANGED <<now, configVars, cacheVars, task, lastDone, calls, ai_calls, set_calls,
                 webVars>>

\* the loop calls categorize() for the next description; the call runs to its
\* return or to the await of the AI client
BatchCategorize ==
  /\ batch.pc = "running"
  /\ task[1].pc = "idle"
  /\ CategorizeCall(1, batch.descriptions[Len(batch.results) + 1])
  /\ batch' = IF lastDone'.pc = "done" THEN Absorb(batch, lastDone') ELSE batch
  /\ UNCHANGED webVars

\* the AI client call of the batch's categorize() ends with `outcome`
BatchResume(outcome) ==
  /\ batch.pc = "running"
  /\ task[1].pc = "awaiting"
  /\ Complete(1, [task[1] EXCEPT !.outcome = outcome], AIResults[outcome])
  /\ batch' = Absorb(batch, lastDone')
  /\ UNCHANGED <<now, configVars, calls, ai_calls, set_calls, webVars>>

BatchInit ==
  /\ Init
  /\ client_suspends = FALSE

BatchNext ==
  \/ \E descriptions \in Batches : BatchStart(descriptions)
  \/ BatchCategorize
  \/ \E outcome \in AIOutcomes : BatchResume(outcome)
  \/ Tick

BatchSpec == BatchInit /\ [][BatchNext]_vars

\* ------------------------------------------------------------------------
\* categorize() on the keyword descriptions
\* ------------------------------------------------------------------------
RuleInit ==
  /\ Init
  /\ max_size = MaxMaxSize

RuleNext ==
  \/ \E t \in Tasks, d \in RuleDescriptions : Categorize(t, d)
  \/ \E t \in Tasks, outcome \in AIOutcomes : ResumeFromAI(t, outcome)

RuleSpec == RuleInit /\ [][RuleNext]_vars

\* ------------------------------------------------------------------------
\* get_categorizer and create_expense
\* ------------------------------------------------------------------------
\* get_categorizer constructing a categorizer on every call
get_categorizer_always_new(categorizer, count) ==
  [instance |-> count + 1, created |-> count + 1]

\* get_categorizer: the instance it returns and the number of instances
\* constructed once it has returned (it has no await: it runs in one step)
get_categorizer(categorizer, count) ==
  IF categorizer = None
  THEN [instance |-> count + 1, created |-> count + 1]
  ELSE [instance |-> categorizer, created |-> count]

\* expense.description after ExpenseCreate's validator: stripped, not empty
ExpenseDescriptions == {"Phone bill", "asdkjalksd123", "zzz"}

\* expense.category: absent (None) or a category chosen by the user
GivenCategories == {"", "Shopping"}

\* expense.amount
Amounts == {50, 80}

\* the model_used column of the audit row
ModelUsed(method) == IF method = AI THEN "gemini-2.5-flash" ELSE "regex"

\* the row create_expense inserts into ai_audit_log
AuditRow(description, suggestion) ==
  [operation_type |-> "categorize", input_text |-> description,
   output_text |-> suggestion.category \o " (" \o suggestion.reasoning \o ")",
   model_used |-> ModelUsed(suggestion.method),
   confidence_score |-> suggestion.confidence]

\* the row create_expense inserts into expenses (confidence -1 stands for NULL)
ExpenseRow(r, category, ai_suggested_category, confidence_score, method) ==
  [amount |-> r.amount, description |-> r.description, category |-> category,
   ai_suggested_category |-> ai_suggested_category,
   confidence_score |-> confidence_score, categorization_method |-> method]

\* what is remembered of a request that ended: the expense posted, whether
\* it was created, the stored method, the categorizer it used, whether it
\* called categorize, how many times that call invoked the AI client, and
\* the audit rows the request wrote
Served(r, status, method, categorized, ai, audit) ==
  [description |-> r.description, given |-> r.category, status |-> status,
   method |-> method, categorizer |-> r.categorizer, categorized |-> categorized,
   ai |-> ai, audit |-> audit]

\* the requests in flight
Inflight == {t \in Tasks : req[t].pc # "idle"}

\* create_expense after `await categorizer.categorize(...)` ended with the
\* call `ended`, for a user without a budget row: the audit row and the
\* expense row are inserted and committed; an exception of categorize()
\* leaves create_expense (the request fails, nothing is written)
WithSuggestion(t, r, ended) ==
  /\ req' = [req EXCEPT ![t] = NoRequest]
  /\ IF ended.status = "returned"
     THEN LET suggestion == ended.result
              row == AuditRow(r.description, suggestion)
          IN /\ db' = [db EXCEPT
                         !.ai_audit_log = Append(@, row),
                         !.expenses = Append(@, ExpenseRow(r, suggestion.category,
                                                           suggestion.category,
                                                           suggestion.confidence,
                                                           suggestion.method))]
             /\ served' = Append(served, Served(r, "created", suggestion.method, TRUE,
                                                ended.ai, <<row>>))
     ELSE /\ served' = Append(served, Served(r, "failed", "", TRUE, ended.ai, <<>>))
          /\ UNCHANGED db

\* POST /api/expenses/ with description d, category `given` and an amount,
\* for a user without a budget row: get_categorizer, then either the manual
\* branch or categorize() up to its return or to the await of the AI client.
\* Without GEMINI_API_KEY the constructor raises inside get_categorizer.
CreateExpense(t, d, given, amount) ==
  /\ req[t].pc = "idle"
  /\ task[t].pc = "idle"
  /\ \A u \in Tasks : u < t => task[u].pc # "idle"
  /\ Len(served) + Cardinality(Inflight) < MaxRequests
  /\ LoopFree
  /\ LET g == get_categorizer(_categorizer, created)
         r == [NoRequest EXCEPT !.description = d, !.category = given, !.amount = amount,
                                !.categorizer = g.instance]
     IN IF g.created > created /\ ~api_key
        THEN /\ served' = Append(served, Served([r EXCEPT !.categorizer = None], "failed",
                                                "", FALSE, 0, <<>>))
             /\ lastDone' = NoCall
             /\ UNCHANGED <<now, configVars, cacheVars, task, calls, ai_calls, set_calls,
                            _categorizer, created, handles, req, db>>
        ELSE /\ _categorizer' = g.instance
             /\ created' = g.created
             /\ handles' = handles \cup {g.instance}
             /\ IF given # ""
                THEN /\ db' = [db EXCEPT !.expenses =
                                 Append(@, ExpenseRow(r, given, "", -1, MANUAL))]
                     /\ served' = Append(served, Served(r, "created", MANUAL, FALSE, 0, <<>>))
                     /\ lastDone' = NoCall
                     /\ UNCHANGED <<now, configVars, cacheVars, task, calls, ai_calls,
                                    set_calls, req>>
                ELSE /\ CategorizeCall(t, d)
                     /\ IF lastDone'.pc = "done"
                        THEN WithSuggestion(t, r, lastDone')
                        ELSE /\ req' = [req EXCEPT ![t] = [r EXCEPT !.pc = "categorizing"]]
                             /\ UNCHANGED <<served, db>>
  /\ UNCHANGED <<batch, api_key>>

\* the AI client call of a request's categorize() ends with `outcome`
ExpenseResume(t, outcome) ==
  /\ req[t].pc = "categorizing"
  /\ task[t].pc = "awaiting"
  /\ Complete(t, [task[t] EXCEPT !.outcome = outcome], AIResults[outcome])
  /\ WithSuggestion(t, req[t], lastDone')
  /\ UNCHANGED <<now, configVars, calls, ai_calls, set_calls, batch, api_key, _categorizer,
                 created, handles>>

\* get_categorizer() called by another handler
GetCategorizer ==
  /\ LoopFree
  /\ created < MaxRequests
  /\ LET g == get_categorizer(_categorizer, created)
     IN /\ g.created > created => api_key
        /\ _categorizer' = g.instance
        /\ created' = g.created
        /\ handles' = handles \cup {g.instance}
  /\ lastDone' = NoCall
  /\ UNCHANGED <<now, configVars, cacheVars, task, calls, ai_calls, set_calls, batch,
                 api_key, req, served, db>>

ExpenseInit ==
  /\ now = 0
  /\ ttl_seconds \in 1..MaxTTL
  /\ max_size = MaxMaxSize
  /\ client_suspends \in BOOLEAN
  /\ _cache = <<>>
  /\ _hits = 0
  /\ _misses = 0
  /\ task = [t \in Tasks |-> BlankCall]
  /\ lastDone = NoCall
  /\ calls = 0
  /\ ai_calls = 0
  /\ set_calls = 0
  /\ get_calls = 0
  /\ batch = NoBatch
  /\ api_key \in BOOLEAN
  /\ WebIdle

ExpenseNext ==
  \/ \E t \in Tasks, d \in ExpenseDescriptions, given \in GivenCategories,
        amount \in Amounts : CreateExpense(t, d, given, amount)
  \/ \E t \in Tasks, outcome \in AIOutcomes : ExpenseResume(t, outcome)
  \/ GetCategorizer
  \/ Tick

ExpenseSpec == ExpenseInit /\ [][ExpenseNext]_vars

\* ------------------------------------------------------------------------
\* create_expense with a budget: check_and_create_budget_alerts
\* ------------------------------------------------------------------------
\* the categories the requests are posted with; the user has a budget row for
\* each of them, with this monthly_limit
AlertCategories == {"Shopping", "Travel"}

MonthlyLimit == 100

\* the thresholds list, in the order the loop takes it
Thresholds == <<50, 80, 100>>

\* datetime.now().strftime("%Y-%m"): the requests of one behaviour fall in
\* one calendar month
CurrentMonth == "2026-11"

\* SELECT COALESCE(SUM(amount), 0) FROM expenses WHERE category = ? ...
RECURSIVE SumAmounts(_, _)
SumAmounts(rows, category) ==
  IF rows = <<>> THEN 0
  ELSE (IF Head(rows).category = category THEN Head(rows).amount ELSE 0)
       + SumAmounts(Tail(rows), category)

\* percentage >= threshold, with percentage = (spent / budget_limit) * 100
\* (for the amounts and the limit of the model the quotient times 100 is exact)
Reaches(spent, budget_limit, threshold) == spent * 100 >= threshold * budget_limit

\* the tracking row of a threshold
TrackingRow(category, threshold) ==
  [category |-> category, threshold_percent |-> threshold, month |-> CurrentMonth]

\* INSERT OR IGNORE into a table with UNIQUE(user_id, category,
\* threshold_percent, month): the table is a set of rows
InsertOrIgnore(table, row) == table \cup {row}

\* SELECT id FROM budget_alert_tracking WHERE ...; existing = fetchone()
TrackingExists(table, row) == row \in table

\* the loop of check_and_create_budget_alerts moves on from position k - 1:
\* the request is at the lookup of the next threshold its percentage
\* reaches, or, past the last one, it has ended
Advance(t, r, k) ==
  LET reached == {j \in k..Len(Thresholds) :
                    Reaches(r.spent, MonthlyLimit, Thresholds[j])}
  IN IF reached = {}
     THEN /\ req' = [req EXCEPT ![t] = NoRequest]
          /\ served' = Append(served, Served(r, "created", MANUAL, FALSE, 0, <<>>))
     ELSE /\ req' = [req EXCEPT ![t] =
                       [r EXCEPT !.pc = "lookup",
                                 !.threshold = CHOOSE j \in reached : \A i \in reached : j <= i]]
          /\ UNCHANGED served

\* what the steps of a request with a manual category leave alone
AlertFrame ==
  UNCHANGED <<now, configVars, cacheVars, task, lastDone, calls, ai_calls, set_calls, batch,
              api_key>>

\* POST /api/expenses/ with a manual category: get_categorizer, the expense
\* row is inserted and committed
PostExpense(t, d, category, amount) ==
  /\ req[t].pc = "idle"
  /\ \A u \in Tasks : u < t => req[u].pc # "idle"
  /\ Len(served) + Cardinality(Inflight) < MaxRequests
  /\ LET g == get_categorizer(_categorizer, created)
         r == [NoRequest EXCEPT !.description = d, !.category = category,
                                !.amount = amount, !.categorizer = g.instance]
     IN /\ _categorizer' = g.instance
        /\ created' = g.created
        /\ handles' = handles \cup {g.instance}
        /\ db' = [db EXCEPT !.expenses = Append(@, ExpenseRow(r, category, "", -1, MANUAL))]
        /\ req' = [req EXCEPT ![t] = [r EXCEPT !.pc = "budget"]]
  /\ UNCHANGED served
  /\ AlertFrame

\* the budget row is read and the month's spending summed;
\* check_and_create_budget_alerts starts its loop
ReadBudget(t) ==
  /\ req[t].pc = "budget"
  /\ Advance(t, [req[t] EXCEPT !.spent = SumAmounts(db.expenses, req[t].category)], 1)
  /\ UNCHANGED <<_categorizer, created, handles, db>>
  /\ AlertFrame

\* the SELECT on budget_alert_tracking for the threshold the loop is at
LookupTracking(t) ==
  /\ req[t].pc = "lookup"
  /\ IF TrackingExists(db.budget_alert_tracking,
                       TrackingRow(req[t].category, Thresholds[req[t].threshold]))
     THEN Advance(t, req[t], req[t].threshold + 1)
     ELSE /\ req' = [req EXCEPT ![t].pc = "alert"]
          /\ UNCHANGED served
  /\ UNCHANGED <<_categorizer, created, handles, db>>
  /\ AlertFrame

\* INSERT INTO alerts
InsertAlert(t) ==
  /\ req[t].pc = "alert"
  /\ db' = [db EXCEPT !.alerts =
              Append(@, [type |-> "budget_warning", category |-> req[t].category,
                         threshold_percent |-> Thresholds[req[t].threshold]])]
  /\ req' = [req EXCEPT ![t].pc = "tracking"]
  /\ UNCHANGED <<_categorizer, created, handles, served>>
  /\ AlertFrame

\* INSERT OR IGNORE INTO budget_alert_tracking; new_alerts.append(...)
InsertTracking(t) ==
  /\ req[t].pc = "tracking"
  /\ db' = [db EXCEPT !.budget_alert_tracking =
              InsertOrIgnore(@, TrackingRow(req[t].category, Thresholds[req[t].threshold]))]
  /\ Advance(t, [req[t] EXCEPT !.new_alerts = Append(@, Thresholds[req[t].threshold])],
             req[t].threshold + 1)
  /\ UNCHANGED <<_categorizer, created, handles>>
  /\ AlertFrame

AlertInit ==
  /\ Init
  /\ max_size = MaxMaxSize
  /\ client_suspends = TRUE

AlertSteps ==
  \/ \E t \in Tasks : ReadBudget(t)
  \/ \E t \in Tasks : LookupTracking(t)
  \/ \E t \in Tasks : InsertAlert(t)
  \/ \E t \in Tasks : InsertTracking(t)

AlertNext ==
  \/ \E t \in Tasks, d \in ExpenseDescriptions, category \in AlertCategories,
        amount \in Amounts : PostExpense(t, d, category, amount)
  \/ AlertSteps

AlertSpec == AlertInit /\ [][AlertNext]_vars

\* the same requests, one after the other: a request is posted when none
\* is in flight
SequentialNext ==
  \/ /\ Inflight = {}
     /\ \E t \in Tasks, d \in ExpenseDescriptions, category \in AlertCategories,
           amount \in Amounts : PostExpense(t, d, category, amount)
  \/ AlertSteps

SequentialSpec == AlertInit /\ [][SequentialNext]_vars

\* ------------------------------------------------------------------------
\* Properties
\* ------------------------------------------------------------------------
\* the calls suspended in the AI client, and the call that has just ended
Awaiting == {task[t] : t \in {u \in Tasks : task[u].pc = "awaiting"}}

Ended == IF lastDone.pc = "done" THEN {lastDone} ELSE {}

\* the categories having a pattern that matches the description
MatchedCategories ==
  [d \in AllDescriptions |->
     {CATEGORY_PATTERNS[i].category : i \in {j \in 1..Len(CATEGORY_PATTERNS) :
                                              CategoryMatches(j, Lower(d))}}]

MatchingDescriptions == {d \in Descriptions : MatchedCategories[d] # {}}

BlankDescriptions == {d \in Descriptions : \A i \in 1..Len(d) : IsSpace(CharAt(d, i))}

Vocabulary ==
  {"Food & Dining", "Transportation", "Shopping", "Entertainment", "Bills & Utilities",
   "Healthcare", "Education", "Personal Care", "Travel", "Savings & Investments", "Other"}

\* C1: a description that matches a configured pattern is answered by the rule
\* tier: the call returns a matched category with confidence 0.95 and method
\* REGEX, never reaches the AI client (whatever state that client is in) and
\* makes no cache lookup.
C1_RuleMatchIsRegex ==
  /\ \A c \in Awaiting : c.description \notin MatchingDescriptions
  /\ \A c \in Ended :
       c.description \in MatchingDescriptions =>
         /\ c.status = "returned"
         /\ c.result.category \in MatchedCategories[c.description]
         /\ c.result.confidence = 95
         /\ c.result.method = REGEX
         /\ c.ai = 0
         /\ c.gets = 0

\* a rule-matched call has returned while another call is still waiting for
\* the AI client
C1_Witness ==
  /\ lastDone.pc = "done"
  /\ lastDone.description \in MatchingDescriptions
  /\ lastDone.result.confidence = 95
  /\ Awaiting # {}

\* C2: an empty or whitespace-only description returns Other, 0.1, REGEX,
\* "Empty description" from the empty check alone: the rule matcher, the cache
\* and the AI client are not reached.
C2_BlankIsOther ==
  /\ \A c \in Awaiting : c.description \notin BlankDescriptions
  /\ \A c \in Ended :
       c.description \in BlankDescriptions =>
         /\ c.status = "returned"
         /\ c.result = Suggestion("Other", 10, REGEX, "Empty description")
         /\ c.tiers = <<"empty">>
         /\ c.gets = 0
         /\ c.ai = 0

\* a whitespace-only description has been answered
C2_Witness ==
  /\ lastDone.pc = "done"
  /\ lastDone.description = " \t "
  /\ lastDone.result.category = "Other"

\* what C3 says of a call c made right after the call c.pred
RepeatsPred(c) ==
  /\ c.pc = "done"
  /\ c.status = "returned"
  /\ c.result.category = c.pred.result.category
  /\ c.result.confidence = c.pred.result.confidence
  /\ c.result.reasoning = c.pred.result.reasoning \o " (cached)"
  /\ c.pred.ai + c.ai = 1

\* the call follows, with nothing in between, a call for the same description
\* that went to the AI client and returned
FollowsAICall(c) ==
  /\ c.pred.status = "returned"
  /\ c.pred.ai = 1
  /\ c.description = c.pred.description

\* C3 (as stated): for every outcome of the first AI call, a second call in
\* immediate succession returns the same category and confidence, its
\* reasoning is the first one's followed by " (cached)", and the AI client
\* was invoked once over the two calls.
C3_AnyOutcomeRepeats ==
  \A c \in Awaiting \cup Ended : FollowsAICall(c) => RepeatsPred(c)

\* C3 (amended): the same, when the first call's result has confidence above
\* 0.25, the results that categorize stores.
C3_StoredResultRepeats ==
  \A c \in Awaiting \cup Ended :
    FollowsAICall(c) /\ c.pred.result.confidence > 25 => RepeatsPred(c)

\* a second call has been served from the entry the first call stored
C3_Witness ==
  /\ lastDone.pc = "done"
  /\ FollowsAICall(lastDone)
  /\ lastDone.pred.result.confidence > 25
  /\ lastDone.hit
  /\ lastDone.ai = 0

\* C4: categorize never raises, whatever the AI client returns or raises.
C4_NeverRaises == lastDone.status # "raised"

\* C5: every suggestion categorize returns, and every suggestion in the cache,
\* has a confidence within [0,1] and a category of the vocabulary.
C5_SuggestionsInRange ==
  /\ \A c \in Ended :
       c.status = "returned" =>
         /\ c.result.confidence \in 0..100
         /\ c.result.category \in Vocabulary
  /\ \A i \in 1..Len(_cache) :
       /\ _cache[i].value.confidence \in 0..100
       /\ _cache[i].value.category \in Vocabulary

\* the AI client offered a category outside the vocabulary, and the call's
\* result was returned and stored
C5_Witness ==
  /\ lastDone.status = "returned"
  /\ lastDone.outcome.kind = "response"
  /\ lastDone.outcome.category.type = "string"
  /\ lastDone.outcome.category.str \notin Vocabulary
  /\ lastDone.stored
  /\ Len(_cache) > 0

\* C6 (as stated): an entry set at time T is not returned by a get made at a
\* time >= T + ttl.
C6_NoHitFromExpiry ==
  \A c \in Awaiting \cup Ended : c.hit => c.getTime < c.entry.set_at + ttl_seconds

\* C6 (amended): an entry set at time T is returned by a get exactly when the
\* get is made at a time <= T + ttl; a get later than T + ttl is a miss, and
\* the categorize call that made it invokes the AI client.
C6_ExpiryIsStrict ==
  \A c \in Awaiting \cup Ended :
    c.gets = 1 /\ c.found =>
      /\ c.hit <=> c.getTime <= c.entry.set_at + ttl_seconds
      /\ ~c.hit => c.ai = 1

\* a call found an entry older than its TTL, took it as a miss and went to the
\* AI client
C6_Witness ==
  \E c \in Awaiting :
    /\ c.found
    /\ ~c.hit
    /\ c.getTime > c.entry.set_at + ttl_seconds
    /\ c.ai = 1

\* C7 (as stated): after max_size + 1 sets with distinct keys on an empty
\* cache, the size is strictly less than max_size.
C7_SizeBelowMax == set_calls = max_size + 1 => Len(_cache) < max_size

\* C7 (amended): after max_size + 1 sets with distinct keys on an empty cache
\* (max_size >= 1), the size is max_size + 1 - max(1, max_size // 10): at most
\* max_size, and strictly less than max_size only when max_size >= 20.
C7_SizeAfterOverflow ==
  set_calls = max_size + 1 =>
    /\ Len(_cache) = max_size + 1 - (IF max_size >= 20 THEN max_size \div 10 ELSE 1)
    /\ Len(_cache) <= max_size
    /\ Len(_cache) < max_size <=> max_size >= 20

\* a cache of 20 was overfilled and two entries were evicted
C7_Witness ==
  /\ max_size = 20
  /\ set_calls = 21
  /\ Len(_cache) = 19

\* C8: the cache never holds more than max_size entries, for every max_size
\* including 0.
C8_SizeAtMostMax == Len(_cache) <= max_size

QuotaWordTexts ==
  {"429 Resource has been exhausted", "Quota exceeded for requests per minute",
   "Rate limit reached", "404 model is not supported for generateContent"}

\* C9: when the AI client raises an error whose text contains "quota", "rate"
\* or "429" in any letter case, the call returns Other, 0.3, AI and has invoked
\* the AI client once.
C9_QuotaErrorFallback ==
  \A c \in Ended :
    c.outcome.kind = "error" /\ c.outcome.text \in QuotaWordTexts =>
      /\ c.status = "returned"
      /\ c.result.category = "Other"
      /\ c.result.confidence = 30
      /\ c.result.method = AI
      /\ c.ai = 1

\* the AI client raised "Quota exceeded ..." and the call returned
C9_Witness ==
  /\ lastDone.pc = "done"
  /\ lastDone.outcome.text = "Quota exceeded for requests per minute"
  /\ lastDone.status = "returned"

\* the failures of the AI tier that are not quota or rate-limit errors: the
\* client raised for another cause, or the confidence it sent is not a number
FailedOtherwise(c) ==
  \/ c.outcome.kind = "error" /\ c.outcome.cause \notin {"quota", "rate_limit"}
  \/ c.outcome.kind = "response" /\ c.outcome.confidence.type = "string"

ErrorText(c) ==
  IF c.outcome.kind = "error" THEN c.outcome.text ELSE FloatError(c.outcome.confidence)

\* C10: when the AI tier fails with an error that is not a quota or rate-limit
\* error, the call returns Other, 0.2, AI with the error text in the reasoning.
C10_OtherErrorFallback ==
  \A c \in Ended :
    FailedOtherwise(c) =>
      /\ c.status = "returned"
      /\ c.result = Suggestion("Other", 20, AI, "AI error: " \o ErrorText(c))

\* the AI client returned a JSON object whose category is a string outside the
\* vocabulary
OutOfVocabulary(c) ==
  /\ c.outcome.kind = "response"
  /\ c.outcome.category.type = "string"
  /\ c.outcome.category.str \notin Vocabulary

\* C11: when the AI client returns a category outside the vocabulary, the call
\* returns Other with confidence 0.3 whatever confidence the AI supplied, and
\* the AI's category is neither returned nor cached.
C11_UnknownCategoryIsOther ==
  /\ \A c \in Ended :
       OutOfVocabulary(c) =>
         /\ c.status = "returned"
         /\ c.result.category = "Other"
         /\ c.result.confidence = 30
  /\ \A i \in 1..Len(_cache) : _cache[i].value.category \in Vocabulary

\* the AI call of c failed: the client raised, or float() rejected the
\* confidence it sent
AIFailed(c) ==
  \/ c.outcome.kind = "error"
  \/ c.outcome.kind = "response" /\ c.outcome.confidence.type = "string"

\* C12: a result that categorize substituted for a failed AI call is never
\* stored in the cache, and the next call for that description invokes the AI
\* client again.
C12_FallbackNotCached ==
  /\ \A c \in Ended : AIFailed(c) => ~c.stored
  /\ \A i \in 1..Len(_cache) :
       _cache[i].value.reasoning # "AI quota exceeded - using fallback category"
  /\ \A c \in Ended :
       /\ c.pred.status = "returned"
       /\ c.pred.ai = 1
       /\ c.pred.result.reasoning = "AI quota exceeded - using fallback category"
       /\ c.description = c.pred.description
       => c.ai = 1

\* C13: categorize returns only REGEX or AI, never MANUAL; every cache entry
\* has method AI; a cache hit is returned with method AI and the stored
\* reasoning followed by " (cached)"; REGEX is returned only for an empty
\* description or a rule match.
C13_MethodReflectsTier ==
  /\ \A c \in Ended :
       c.status = "returned" =>
         /\ c.result.method \in {REGEX, AI}
         /\ c.result.method # MANUAL
         /\ c.hit =>
              /\ c.result.method = AI
              /\ c.result.reasoning = c.entry.value.reasoning \o " (cached)"
         /\ c.result.method = REGEX =>
              c.description \in BlankDescriptions \cup MatchingDescriptions
  /\ \A i \in 1..Len(_cache) : _cache[i].value.method = AI

\* a call was answered from the cache while the entry is still stored
C13_Witness ==
  /\ lastDone.status = "returned"
  /\ lastDone.hit
  /\ lastDone.tiers = <<"empty", "regex", "cache">>
  /\ lastDone.result.method = AI
  /\ Len(_cache) > 0

\* the order of the categories the claim gives
TableOrder ==
  <<"Food & Dining", "Transportation", "Shopping", "Entertainment", "Bills & Utilities",
    "Healthcare", "Education", "Personal Care", "Travel", "Savings & Investments">>

Position(category) == CHOOSE i \in 1..Len(TableOrder) : TableOrder[i] = category

\* the category of `categories` listed first
FirstListed(categories) ==
  CHOOSE a \in categories : \A b \in categories : Position(a) <= Position(b)

\* the category each keyword of OrderWords belongs to
WordCategory ==
  [w \in OrderWords |->
     CASE w = "pizza" -> "Food & Dining"
       [] w = "amazon" -> "Shopping"
       [] w = "rent" -> "Bills & Utilities"
       [] w = "doctor" -> "Healthcare"
       [] w = "hotel" -> "Travel"
       [] w = "savings" -> "Savings & Investments"]

ExpectedCategory ==
  [d \in TestDescriptions |->
     IF d \in {"Starbucks coffee", "McDonald's lunch", "Pizza delivery",
               "Supermarket groceries", "Restaurant dinner", "KFC meal"}
     THEN "Food & Dining"
     ELSE IF d \in {"Uber ride", "Gas station fill-up", "Bus fare", "Taxi to airport",
                    "Lyft to downtown"}
     THEN "Transportation"
     ELSE IF d \in {"Amazon purchase", "Mall shopping", "Nike store", "Electronics store"}
     THEN "Shopping"
     ELSE IF d \in {"Netflix subscription", "Movie tickets", "Spotify premium",
                    "Concert tickets", "Cinema outing"}
     THEN "Entertainment"
     ELSE IF d \in {"Electric bill payment", "Water utility", "Internet bill", "Phone bill",
                    "Rent payment"}
     THEN "Bills & Utilities"
     ELSE "Healthcare"]

\* C15: for every description of the test tables, categorize returns the
\* category the test pairs it with and method REGEX, without an AI call.
C15_TestTablesHold ==
  /\ \A c \in Awaiting : c.description \notin TestDescriptions
  /\ \A c \in Ended :
       c.description \in TestDescriptions =>
         /\ c.status = "returned"
         /\ c.result.category = ExpectedCategory[c.description]
         /\ c.result.method = REGEX
         /\ c.ai = 0

AllTiers == <<"empty", "regex", "cache", "ai">>

\* C16: within one call the tiers run in the order empty check, rule match,
\* cache lookup, AI call, each at most once; the AI client is invoked at most
\* once per call, and only after the rule matcher found no match and the
\* call's own cache lookup was a miss.
C16_TiersInOrder ==
  \A c \in Awaiting \cup Ended :
    /\ \E n \in 1..Len(AllTiers) : c.tiers = SubSeq(AllTiers, 1, n)
    /\ c.ai \in {0, 1}
    /\ c.gets \in {0, 1}
    /\ c.ai = 1 <=> c.tiers = AllTiers
    /\ c.gets = 1 <=> Len(c.tiers) >= 3
    /\ c.ai = 1 =>
         /\ c.description \notin BlankDescriptions
         /\ c.description \notin MatchingDescriptions
         /\ c.gets = 1
         /\ ~c.hit
         /\ c.found => c.getTime > c.entry.expires_at
    /\ c.hit => c.ai = 0

\* a call found an expired entry, went through all four tiers and returned
C16_Witness ==
  /\ lastDone.status = "returned"
  /\ lastDone.tiers = AllTiers
  /\ lastDone.ai = 1
  /\ lastDone.gets = 1
  /\ lastDone.found

\* two calls for the same normalized description
SameKey(c, d) == Keys[c.description] = Keys[d.description]

CancelStep(t) ==
  /\ task[t].pc = "awaiting"
  /\ task'[t].pc = "idle"
  /\ lastDone'.outcome.kind = "cancelled"

\* C18: a call cancelled while suspended in the AI client ends without a
\* result and without reaching cache.set; the cancellation leaves the store
\* and the hit and miss counters as the call's cache miss left them.
C18_CancelLeavesCache ==
  [][\A t \in Tasks :
       CancelStep(t) =>
         /\ _cache' = _cache
         /\ _hits' = _hits
         /\ _misses' = _misses
         /\ lastDone'.status = "cancelled"
         /\ lastDone'.result = NoSuggestion
         /\ ~lastDone'.stored
         /\ lastDone'.gets = 1 /\ ~lastDone'.hit]_vars

\* a call was cancelled after its peer for the same description had returned
\* and stored its result; the peer's entry is still the one in the cache
C18_Witness ==
  /\ lastDone.status = "cancelled"
  /\ lastDone.ai = 1
  /\ lastDone.peer.status = "returned"
  /\ Len(_cache) = 1
  /\ _cache[1].key = Keys[lastDone.description]
  /\ _cache[1].value = lastDone.peer.result
  /\ _misses = 2

\* the step is a get() call for description d
GetStep(d) ==
  /\ get_calls' = get_calls + 1
  /\ lastDone'.gets = 1
  /\ lastDone'.description = d

\* the key each description of CacheDescriptions is stored under
KeyOf ==
  [d \in CacheDescriptions |-> IF d = "zzz" THEN "md5(zzz)" ELSE "md5(asdkjalksd123)"]

\* the entries stored under the key of description d
EntriesOf(cache, d) == {i \in 1..Len(cache) : cache[i].key = KeyOf[d]}

\* get() found no entry: it returns nothing and counts a miss
AbsentOutcome(d) ==
  /\ EntriesOf(_cache, d) = {}
  /\ lastDone'.result = NoSuggestion
  /\ ~lastDone'.hit
  /\ _misses' = _misses + 1
  /\ _hits' = _hits
  /\ _cache' = _cache

\* get() found an expired entry: it deletes it, returns nothing and counts a miss
ExpiredOutcome(d) ==
  \E i \in EntriesOf(_cache, d) :
    /\ now > _cache[i].expires_at
    /\ lastDone'.result = NoSuggestion
    /\ ~lastDone'.hit
    /\ _misses' = _misses + 1
    /\ _hits' = _hits
    /\ Len(_cache') = Len(_cache) - 1
    /\ EntriesOf(_cache', d) = {}
    /\ \A j \in 1..Len(_cache) : j # i => \E k \in 1..Len(_cache') : _cache'[k] = _cache[j]

\* get() found a live entry: it returns the stored suggestion and counts a hit
LiveOutcome(d) ==
  \E i \in EntriesOf(_cache, d) :
    /\ now <= _cache[i].expires_at
    /\ lastDone'.result = _cache[i].value
    /\ lastDone'.hit
    /\ _hits' = _hits + 1
    /\ _misses' = _misses
    /\ _cache' = _cache

\* C19: every get has exactly one of three outcomes (absent: nothing returned,
\* misses + 1; expired: entry deleted, nothing returned, misses + 1; live: the
\* stored suggestion returned unchanged, hits + 1, store unchanged), and
\* hits + misses is the number of get calls since construction or the last
\* clear.
C19_GetOutcomes ==
  /\ [](_hits + _misses = get_calls)
  /\ [][\A d \in CacheDescriptions :
          GetStep(d) =>
            /\ AbsentOutcome(d) \/ ExpiredOutcome(d) \/ LiveOutcome(d)
            /\ ~(AbsentOutcome(d) /\ ExpiredOutcome(d))
            /\ ~(AbsentOutcome(d) /\ LiveOutcome(d))
            /\ ~(ExpiredOutcome(d) /\ LiveOutcome(d))]_vars

\* three gets have been made since construction or the last clear: one was a
\* hit, two were misses, the last of them on an expired entry
C19_Witness ==
  /\ lastDone.pc = "get"
  /\ lastDone.found
  /\ ~lastDone.hit
  /\ _hits = 1
  /\ _misses = 2
  /\ get_calls = 3

\* the description a set() step is called with: the next unused description,
\* or the first one again
SetStepFor(d) ==
  \/ set_calls' = set_calls + 1 /\ d = FillDescriptions[set_calls + 1]
  \/ set_calls' = set_calls /\ now' = now /\ d = FillDescriptions[1]

\* the number of entries the claim says are evicted from a store of `size`
EvictCount(size) ==
  LET tenth == IF max_size \div 10 >= 1 THEN max_size \div 10 ELSE 1
  IN IF size <= tenth THEN size ELSE tenth

\* the store `kept` after set() inserts description d at time now
Inserted(kept, d) ==
  LET e == [key |-> "md5(" \o d \o ")", value |-> FillValue,
            expires_at |-> now + ttl_seconds, set_at |-> now]
  IN IF \E i \in 1..Len(kept) : kept[i].key = e.key
     THEN [i \in 1..Len(kept) |-> IF kept[i].key = e.key THEN e ELSE kept[i]]
     ELSE Append(kept, e)

\* C20: a set() called when the store holds max_size entries or more first
\* removes exactly min(size, max(1, max_size // 10)) entries, none of which
\* expires later than an entry that stays, and then inserts.
C20_EvictsSoonest ==
  [][\A d \in {FillDescriptions[i] : i \in 1..Len(FillDescriptions)} :
       SetStepFor(d) /\ Len(_cache) >= max_size =>
         \E removed \in {{}} \cup {{i, j} : i, j \in 1..Len(_cache)} :
           /\ Cardinality(removed) = EvictCount(Len(_cache))
           /\ \A r \in removed : \A k \in (1..Len(_cache)) \ removed :
                _cache[r].expires_at <= _cache[k].expires_at
           /\ _cache' = Inserted(RemoveAt(_cache, removed), d)]_vars

\* a full store of 20 whose first entry had been set again later lost its two
\* soonest-expiring entries to the 21st key; the first entry stayed
C20_Witness ==
  /\ max_size = 20
  /\ set_calls = 21
  /\ Len(_cache) = 19
  /\ _cache[1].key = "md5(d01)"
  /\ _cache[1].expires_at > _cache[2].expires_at
  /\ _cache[19].key = "md5(d21)"

\* the step is a set() call for description d
SetStep(d) ==
  /\ set_calls' = set_calls + 1
  /\ lastDone'.pc = "set"
  /\ lastDone'.description = d

\* two different descriptions that differ only in letter case and in leading
\* or trailing whitespace
Variants(d, e) == d # e /\ {d, e} = {"asdkjalksd123", " AsdkjaLKSD123  "}

\* C21: for two descriptions that differ only in letter case or surrounding
\* whitespace, a get with one after a set with the other (within the TTL, no
\* eviction in between) is a hit returning the stored suggestion, and a set
\* with one overwrites the single entry stored with the other.
C21_KeysNormalized ==
  [][\A d, e \in CacheDescriptions :
       Variants(d, e) =>
         /\ GetStep(e) /\ lastDone.pc = "set" /\ lastDone.description = d =>
              /\ lastDone'.hit
              /\ lastDone'.result = lastDone.result
         /\ GetStep(e) =>
              \A i \in EntriesOf(_cache, d) :
                now <= _cache[i].set_at + ttl_seconds =>
                  /\ lastDone'.hit
                  /\ lastDone'.result = _cache[i].value
         /\ SetStep(e) /\ EntriesOf(_cache, d) # {} =>
              /\ Cardinality(EntriesOf(_cache', d)) = 1
              /\ \A i \in EntriesOf(_cache', d) :
                   /\ _cache'[i].value = lastDone'.result
                   /\ _cache'[i].set_at = now
              /\ Len(_cache) < max_size => Len(_cache') = Len(_cache)]_vars

\* a suggestion set with one variant, overwritten by a set with the other a
\* tick later, has just been returned by a get with the first variant
C21_Witness ==
  /\ lastDone.pc = "get"
  /\ lastDone.description = "asdkjalksd123"
  /\ lastDone.hit
  /\ lastDone.entry.set_at = 1
  /\ lastDone.result.category = "Other"
  /\ set_calls = 2
  /\ Len(_cache) = 1
  /\ max_size = 2

\* C22: batch_categorize returns a list as long as its argument, whose i-th
\* element is what the i-th categorize call returned, the calls being made one
\* after another in list order with never two AI calls in flight; a later
\* duplicate of an earlier description whose result was cacheable is served
\* from the cache.
C22_BatchIsSequential ==
  /\ batch.pc # "raised"
  /\ batch.pc = "returned" => Len(batch.results) = Len(batch.descriptions)
  /\ Cardinality({t \in Tasks : task[t].pc = "awaiting"}) <= 1
  /\ calls = Len(batch.results) + Cardinality({t \in Tasks : task[t].pc = "awaiting"})
  /\ \A i, j \in 1..Len(batch.results) :
       /\ i < j
       /\ Keys[batch.descriptions[i]] = Keys[batch.descriptions[j]]
       /\ batch.results[i].result.method = AI
       /\ batch.results[i].result.confidence > 25
       => batch.results[j].hit /\ batch.results[j].ai = 0

\* the step starts a categorize() call for a blank or rule-matched
\* description: the call has ended in the step, or is suspended after it
RuleTierStep ==
  /\ calls' = calls + 1
  /\ \/ /\ lastDone'.pc = "done"
        /\ lastDone'.description \in BlankDescriptions \cup MatchingDescriptions
     \/ \E t \in Tasks :
          /\ task[t].pc = "idle"
          /\ task'[t].pc = "awaiting"
          /\ task'[t].description \in BlankDescriptions \cup MatchingDescriptions

\* C23: a categorize call that ends in the empty-input branch or in the rule
\* tier leaves the cache as it was: no entry added, removed or overwritten,
\* hit and miss counters unchanged.
C23_RuleTierLeavesCache ==
  [][RuleTierStep =>
       /\ lastDone'.status = "returned"
       /\ lastDone'.tiers \in {<<"empty">>, <<"empty", "regex">>}
       /\ ~lastDone'.stored
       /\ _cache' = _cache
       /\ _hits' = _hits
       /\ _misses' = _misses]_vars

\* a rule-matched call has ended with an entry in the cache and one miss counted
C23_Witness ==
  /\ lastDone.status = "returned"
  /\ lastDone.tiers = <<"empty", "regex">>
  /\ lastDone.result.method = REGEX
  /\ Len(_cache) = 1
  /\ _misses = 1

\* the requests that ended with the expense created
Created == {i \in DOMAIN served : served[i].status = "created"}

\* C24: get_categorizer returns the same ExpenseCategorizer instance on
\* every call, however many calls are made: at most one instance is ever
\* constructed, every instance returned so far is the global one, and every
\* request, in flight or ended, that got a categorizer holds that instance
\* (whose cache is the one CategorizationCache of the process).
C24_OneCategorizer ==
  /\ created <= 1
  /\ handles \subseteq {_categorizer}
  /\ Cardinality(handles) <= 1
  /\ \A t \in Inflight : req[t].categorizer = _categorizer
  /\ \A i \in DOMAIN served :
        served[i].categorizer # None => served[i].categorizer = _categorizer

\* two requests were served by the one instance, and the second one was
\* answered from the cache entry the first one's AI result left
C24_Witness ==
  /\ Len(served) = 2
  /\ Created = {1, 2}
  /\ handles = {1}
  /\ served[1].categorizer = served[2].categorizer
  /\ served[1].ai = 1
  /\ served[2].method = AI
  /\ served[2].ai = 0

\* the result of call c is in the cache, under the key of its description
InCache(c) ==
  \E i \in 1..Len(_cache) :
    /\ _cache[i].key = Keys[c.description]
    /\ _cache[i].value = c.result

\* a successful AI response with a category of the vocabulary and a numeric
\* confidence of at most 0.25
ValidLow(outcome) ==
  /\ outcome.kind = "response"
  /\ outcome.category.type = "string"
  /\ outcome.category.str \in Vocabulary
  /\ outcome.confidence.type = "number"
  /\ outcome.confidence.num <= CacheThreshold

\* what C25 says of the call c that has just ended after invoking the AI
\* client, and of a call made right after such a call
StoredIffAbove(c) ==
  c.status = "returned" => (InCache(c) <=> c.result.confidence > CacheThreshold)

LowIsReturned(c) ==
  /\ c.status = "returned"
  /\ c.result.category = c.outcome.category.str
  /\ c.result.confidence = c.outcome.confidence.num
  /\ ~c.stored
  /\ ~InCache(c)

AsksAgain(c) ==
  FollowsAICall(c) /\ c.pred.result.confidence <= CacheThreshold => c.ai = 1

\* C25: an AI-tier result is in the cache after the call if and only if its
\* confidence is above 0.25; a successful AI response with a valid category
\* and a confidence of at most 0.25 is returned, is not cached, and the call
\* made next for that description invokes the AI client again.
C25_StoredIffAboveThreshold ==
  /\ \A c \in Ended : c.ai = 1 => StoredIffAbove(c)
  /\ \A c \in Ended : c.ai = 1 /\ ValidLow(c.outcome) => LowIsReturned(c)
  /\ \A c \in Awaiting \cup Ended : AsksAgain(c)

\* the same for the responses whose confidence lies within [0, 0.25]
LowWithinRangeIsReturned ==
  /\ \A c \in Ended : c.ai = 1 => StoredIffAbove(c)
  /\ \A c \in Ended :
        c.ai = 1 /\ ValidLow(c.outcome) /\ c.outcome.confidence.num >= 0 => LowIsReturned(c)
  /\ \A c \in Awaiting \cup Ended : AsksAgain(c)

\* a response of confidence 0.25 was returned and the next call asked again
LowWithinRangeSeen ==
  /\ lastDone.pc = "done"
  /\ lastDone.ai = 1
  /\ FollowsAICall(lastDone)
  /\ lastDone.pred.result.confidence = CacheThreshold

\* the parts of C26, for the request that ended i-th
RowIffInvoked(i) == (served[i].audit # <<>>) <=> (served[i].ai >= 1)

ModelNameMeansInvoked(i) ==
  \A j \in DOMAIN served[i].audit :
    served[i].audit[j].model_used = "gemini-2.5-flash" => served[i].ai >= 1

ManualWritesNoRow(i) ==
  served[i].given # "" =>
    /\ served[i].audit = <<>>
    /\ ~served[i].categorized
    /\ served[i].status = "created" => served[i].method = MANUAL

\* C26: create_expense writes an ai_audit_log row for an expense exactly
\* when the AI client was invoked to categorize that expense; a row whose
\* model_used is the AI model name belongs to a request that invoked the AI
\* client; with a manual category no row is written, categorize is not
\* called and the stored method is "manual".
C26_AuditOnAIUse ==
  \A i \in DOMAIN served :
    /\ RowIffInvoked(i)
    /\ ModelNameMeansInvoked(i)
    /\ ManualWritesNoRow(i)

\* the audit table holds the rows the requests wrote, and the manual part
AuditRowsAreTheRequests ==
  /\ Len(db.ai_audit_log) = Cardinality({i \in DOMAIN served : served[i].audit # <<>>})
  /\ \A i \in DOMAIN served : ManualWritesNoRow(i)

\* single parts of C26
NoRowWithoutInvocation == \A i \in DOMAIN served : served[i].audit # <<>> => served[i].ai >= 1

RowForEveryInvocation == \A i \in DOMAIN served : served[i].ai >= 1 => served[i].audit # <<>>

ModelNameIsHonest == \A i \in DOMAIN served : ModelNameMeansInvoked(i)

\* the alert rows of a category and a threshold
AlertsFor(category, threshold) ==
  {i \in DOMAIN db.alerts : /\ db.alerts[i].category = category
                            /\ db.alerts[i].threshold_percent = threshold}

\* C27: for each category of the user and each threshold 50, 80 and 100, at
\* most one alert row exists in the month, over any sequence of calls of
\* check_and_create_budget_alerts and also when two create_expense requests
\* interleave at its awaits.
C27_OneAlertPerThreshold ==
  \A category \in AlertCategories, k \in DOMAIN Thresholds :
    Cardinality(AlertsFor(category, Thresholds[k])) <= 1

\* two requests for one category have ended and the later one found the
\* thresholds of the earlier one tracked
TwoRequestsOneCategory ==
  /\ Len(served) = 2
  /\ served[1].given = served[2].given
  /\ Len(db.alerts) >= 2

\* every entry of the store after the step either was there before with the
\* same expires_at, or was written by this step, a set() for its key, with
\* the time of the set plus ttl
ExpiryKept ==
  \A j \in 1..Len(_cache') :
    \/ \E i \in 1..Len(_cache) : /\ _cache[i].key = _cache'[j].key
                                 /\ _cache[i].expires_at = _cache'[j].expires_at
    \/ /\ set_calls' = set_calls + 1
       /\ lastDone'.pc = "set"
       /\ KeyOf[lastDone'.description] = _cache'[j].key
       /\ _cache'[j].expires_at = now + ttl_seconds

\* a get() made later than the entry's set time plus ttl does not return it
GoneAfterTTL(d) ==
  \A i \in EntriesOf(_cache, d) :
    now > _cache[i].set_at + ttl_seconds =>
      /\ ~lastDone'.hit
      /\ lastDone'.result = NoSuggestion

\* C28: a cache hit never changes the entry's expires_at, and no step other
\* than a set() for the entry's key does: an entry set at time T is not
\* returned by a get made after T + ttl, however many hits came in between,
\* unless a later set for its key replaced it; set assigns expires_at the
\* time of the set plus ttl.
C28_HitKeepsExpiry ==
  /\ [][ExpiryKept]_vars
  /\ [][\A d \in CacheDescriptions : GetStep(d) => GoneAfterTTL(d)]_vars

\* an entry was hit twice, and the third get, made
\* after its set time plus ttl, did not return it
C28_Witness ==
  /\ lastDone.pc = "get"
  /\ lastDone.found
  /\ ~lastDone.hit
  /\ now > lastDone.entry.set_at + ttl_seconds
  /\ lastDone.entry.expires_at = lastDone.entry.set_at + ttl_seconds
  /\ _hits = 2
  /\ _misses = 1
  /\ set_calls = 1

\* the set() for description d was called at capacity: an entry expiring no
\* later than any other is evicted, whether or not d's key is stored (when
\* that entry is d's own, the new entry is inserted anew, last in the store)
EvictsAtCapacity(d) ==
  Len(_cache) >= max_size /\ Len(_cache) >= 1 =>
    \E i \in 1..Len(_cache) :
      /\ \A k \in 1..Len(_cache) : _cache[i].expires_at <= _cache[k].expires_at
      /\ IF _cache[i].key = KeyOf[d]
         THEN _cache'[Len(_cache')].key = KeyOf[d]
         ELSE \A k \in 1..Len(_cache') : _cache'[k].key # _cache[i].key

\* below capacity set() removes nothing
KeepsBelowCapacity(d) ==
  Len(_cache) < max_size =>
    \A i \in 1..Len(_cache) :
      _cache[i].key # KeyOf[d] => \E k \in 1..Len(_cache') : _cache'[k] = _cache[i]

\* the entry set() wrote is in the store after the set, once
WrittenStays(d) ==
  /\ Cardinality(EntriesOf(_cache', d)) = 1
  /\ \A k \in EntriesOf(_cache', d) :
       /\ _cache'[k].value = lastDone'.result
       /\ _cache'[k].set_at = now
       /\ _cache'[k].expires_at = now + ttl_seconds

\* C29: set decides to evict from the store size alone: at capacity it
\* evicts also when the key being set is already stored; the entry it writes
\* is never among the entries that same set evicts, and a get for it right
\* after the set is a hit returning it.
C29_EvictsOnSizeAlone ==
  /\ [][\A d \in CacheDescriptions :
          SetStep(d) => EvictsAtCapacity(d) /\ KeepsBelowCapacity(d) /\ WrittenStays(d)]_vars
  /\ [][\A d \in CacheDescriptions :
          GetStep(d) /\ lastDone.pc = "set" /\ KeyOf[lastDone.description] = KeyOf[d] =>
            /\ lastDone'.hit
            /\ lastDone'.result = lastDone.result]_vars

\* a set() for a key that was stored, in a store of max_size 2 holding two
\* entries, has removed the entry of the other key
C29_Witness ==
  /\ lastDone.pc = "set"
  /\ lastDone.found
  /\ lastDone.evicted = 1
  /\ max_size = 2
  /\ Len(_cache) = 1
  /\ _cache[1].key = KeyOf[lastDone.description]
  /\ _cache[1].value = lastDone.result

\* a call for the same key ended with a cacheable result while call c was
\* suspended in the AI client
OverlappedWriter(c) ==
  /\ c.peer.status = "returned"
  /\ c.peer.ai = 1
  /\ c.peer.result.confidence > CacheThreshold

\* the step in which the suspended call of task t ends without reaching
\* cache.set
EndsUnstored(t) ==
  /\ task[t].pc = "awaiting"
  /\ task'[t].pc = "idle"
  /\ lastDone'.pc = "done"
  /\ ~lastDone'.stored

\* C30: when calls for the same normalized description overlap and more
\* than one produces a cacheable result, the cache holds exactly one entry
\* for the description, the result of the call whose AI invocation completed
\* last; a call that ends with a non-cacheable result removes and replaces
\* nothing in the cache.
C30_LastWriterWins ==
  /\ [](\A c \in Ended :
          c.status = "returned" /\ c.result.confidence > CacheThreshold
            /\ c.ai = 1 /\ OverlappedWriter(c) =>
            /\ Cardinality({i \in 1..Len(_cache) : _cache[i].key = Keys[c.description]}) = 1
            /\ \A i \in 1..Len(_cache) :
                 _cache[i].key = Keys[c.description] =>
                   /\ _cache[i].value = c.result
                   /\ _cache[i].set_at = now)
  /\ [][\A t \in Tasks : EndsUnstored(t) => _cache' = _cache]_vars

\* two overlapping calls for one description both produced a cacheable
\* result; the entry is the later one's, not what the earlier caller was given
C30_Witness ==
  /\ lastDone.status = "returned"
  /\ lastDone.ai = 1
  /\ lastDone.stored
  /\ OverlappedWriter(lastDone)
  /\ lastDone.peer.result # lastDone.result
  /\ Len(_cache) = 1
  /\ _cache[1].value = lastDone.result
  /\ _cache[1].value # lastDone.peer.result

\* a call ended with a non-cacheable result after its peer had stored one:
\* the peer's entry is still there
UnstoredLeftEntry ==
  /\ lastDone.status = "returned"
  /\ lastDone.ai = 1
  /\ ~lastDone.stored
  /\ lastDone.result.confidence <= CacheThreshold
  /\ OverlappedWriter(lastDone)
  /\ Len(_cache) = 1
  /\ _cache[1].value = lastDone.peer.result
====
